---- MODULE Spec2Model ----
(***************************************************************************)
(* A model of src/main.rs: the start-up sequence (privilege check, HID     *)
(* device discovery and open, hwmon temperature-sensor resolution, the     *)
(* two init packets) and the display loop that samples utilisation,        *)
(* energy and temperature around one sleep and writes one status frame.    *)
(*                                                                         *)
(* Every I/O call of the program is one action.  The pure code between two *)
(* I/O calls belongs to the action of the call that precedes it.  The      *)
(* environment (attached HID devices, sensor files, the CPU counters) is   *)
(* read lazily: what a read returns is chosen when the read happens.       *)
(*                                                                         *)
(* A packet is a sequence of 64 bytes; byte k of the source is element k+1 *)
(* here (B(d, k)).                                                         *)
(***************************************************************************)
EXTENDS Integers, Sequences, FiniteSets, TLC

VARIABLES
    pc,              \* position of main
    euid,            \* geteuid()
    fahrenheit,      \* args.fahrenheit
    poll,            \* args.poll
    seen,            \* devices api.device_list() has yielded so far
    product_id,      \* main's product_id
    device,          \* opened device: its index in seen, 0 = none
    i,               \* find_cpu_sensor's i
    names,           \* results of the hwmon{i}/name reads, in order
    cpu_hwmon_path,  \* chip index of the resolved temp1_input, -1 = none
    init_data,       \* main's init_data buffer
    status_data,     \* main's status_data buffer
    cpu_util_start,
    cpu_power_start,
    cpu_util_end,
    cpu_power_end,
    k10temp,         \* get_temp's k10temp as parsed, -1 = none
    written,         \* bytes 0..7 of every packet device.write accepted
    exit_code,       \* process exit status, -1 while running
    failure,         \* the fatal condition that ended the process
    iter,            \* display-loop iterations started
    slept,           \* sleeps completed
    steps,           \* I/O steps of the current iteration, in order
    taken            \* value of slept when each sample was taken

vars == <<pc, euid, fahrenheit, poll, seen, product_id, device, i, names,
          cpu_hwmon_path, init_data, status_data, cpu_util_start,
          cpu_power_start, cpu_util_end, cpu_power_end, k10temp, written,
          exit_code, failure, iter, slept, steps, taken>>

----------------------------------------------------------------------------
(* Bounds of the model *)

\* display-loop iterations explored
MaxIter == 2
\* devices the enumeration yields at most
MaxDevices == 2
\* hwmon chips that exist at most
MaxChips == 3

----------------------------------------------------------------------------
(* Program constants *)

\* const VENDOR: u16 = 0x3633
VENDOR == 13875
\* exit(1)
EXIT_FAILURE == 1
\* exit status of a Rust process that panics (expect / unwrap / overflow check)
EXIT_PANIC == 101
\* [u8; 64]
PACKET_LEN == 64

----------------------------------------------------------------------------
(* Bytes and packets *)

B(d, k) == d[k + 1]

Put(d, k, v) == [d EXCEPT ![k + 1] = v]

RECURSIVE SumBytes(_, _, _)
SumBytes(d, lo, hi) ==
    IF lo > hi THEN 0 ELSE B(d, lo) + SumBytes(d, lo + 1, hi)

\* let mut data: [u8; 64] = [0; 64]; data[0] = 16; data[1] = 104; ...
Data ==
    [k \in 1..PACKET_LEN |->
        CASE k = 1 -> 16
          [] k = 2 -> 104
          [] k = 3 -> 1
          [] k = 4 -> 1
          [] OTHER -> 0]

NoPacket == <<>>

\* a variant of InitPacketA: the second stage's bytes are sent first
InitPacketA_SecondStage ==
    Put(Put(Put(Put(Put(Data, 4, 2), 5, 2), 6, 1), 7, 111), 8, 22)

\* init_data = data.clone(); init_data[4..8] = 2, 3, 1, 112, 22
InitPacketA ==
    Put(Put(Put(Put(Put(Data, 4, 2), 5, 3), 6, 1), 7, 112), 8, 22)

\* a variant of InitPacketB: byte 7 is left as the first packet had it
InitPacketB_StaleSum(d) == Put(d, 5, 2)

\* init_data[5] = 2; init_data[7] = 111  (on the buffer already sent once)
InitPacketB(d) == Put(Put(d, 5, 2), 7, 111)

\* status_data = data.clone(); status_data[4..7] = 11, 1, 2, 5
StatusHeader == Put(Put(Put(Put(Data, 4, 11), 5, 1), 6, 2), 7, 5)

\* what the log of written packets keeps of a packet: bytes 0..7
Kind(d) == SubSeq(d, 1, 8)

----------------------------------------------------------------------------
(* Numeric conversions *)

\* f64/f32 division followed by .round() (half away from zero), for n, d >= 0
\* and d > 0, on operands the float type represents exactly
RoundDiv(n, d) == (2 * n + d) \div (2 * d)

\* u16::to_be_bytes
U16BE(v) == <<v \div 256, v % 256>>

\* u16::from_be_bytes
U16FromBE(hi, lo) == hi * 256 + lo

RECURSIVE Log2(_)
Log2(n) == IF n <= 1 THEN 0 ELSE 1 + Log2(n \div 2)

RECURSIVE Pow2(_)
Pow2(e) == IF e = 0 THEN 1 ELSE 2 * Pow2(e - 1)

\* (n as f32).to_be_bytes() for a u8 n: sign 0, biased exponent, 23-bit mantissa
F32BE(n) ==
    IF n = 0 THEN <<0, 0, 0, 0>>
    ELSE LET e    == Log2(n)
             expo == 127 + e
             mant == (n - Pow2(e)) * Pow2(23 - e)
         IN <<expo \div 2,
              (expo % 2) * 128 + mant \div 65536,
              (mant \div 256) % 256,
              mant % 256>>

\* the integer a big-endian f32 with zero fraction bits below the unit encodes
F32Value(b) ==
    LET expo == b[1] * 2 + b[2] \div 128
        mant == (b[2] % 128) * 65536 + b[3] * 256 + b[4]
    IN IF expo = 0 /\ mant = 0 THEN 0
       ELSE (Pow2(23) + mant) \div Pow2(23 - (expo - 127))

\* f64 as u16: saturating
SatU16(x) == IF x > 65535 THEN 65535 ELSE x

\* a variant of PowerU16: the quotient is truncated, not rounded
PowerU16_Truncated(delta, p) ==
    LET den == p * 1000
    IN IF den = 0 THEN (IF delta = 0 THEN 0 ELSE 65535)
       ELSE SatU16(delta \div den)

\* (delta as f64 / (args.poll * 1000) as f64).round() as u16, delta being the
\* difference cpu_power_end - cpu_power_start when it does not overflow.
\* A zero divisor gives NaN (0 / 0, cast to 0) or +inf (cast to 65535).
PowerU16(delta, p) ==
    LET den == p * 1000
    IN IF den = 0 THEN (IF delta = 0 THEN 0 ELSE 65535)
       ELSE SatU16(RoundDiv(delta, den))

\* The same when cpu_power_end < cpu_power_start and the u64 subtraction
\* wraps: the difference is 2^64 - borrow.  With borrow < 2^31 and
\* args.poll * 1000 < 2^31 the quotient is above 2^32 (or +inf), so the cast
\* saturates whatever the operands are.
WrappedPowerU16(borrow, p) == 65535

\* k10temp * 9 in u32, as 16-bit halves <<high, low>>; high >= 65536 says the
\* product does not fit in 32 bits
Mul9(c) ==
    LET lo9 == (c % 65536) * 9
    IN <<(c \div 65536) * 9 + lo9 \div 65536, lo9 % 65536>>

Mul9Overflows(c) == Mul9(c)[1] >= 65536

\* k10temp * 9 / 5 + 32000 on the product reduced modulo 2^32
FahrenheitMilli(c) ==
    LET hi == Mul9(c)[1] % 65536
        lo == Mul9(c)[2]
    IN (hi \div 5) * 65536 + ((hi % 5) * 65536 + lo) \div 5 + 32000

\* a variant of ScaleRoundU8: the quotient is truncated, not rounded
ScaleRoundU8_Truncated(k) == IF k >= 256000 THEN 255 ELSE k \div 1000

\* (k10temp as f32 / 1000 as f32).round() as u8.  Below 2^24 the u32 is an
\* exact f32 and the quotient rounds as the real one does; from 255500 on
\* (so for every value the f32 conversion rounds) the cast saturates at 255.
ScaleRoundU8(k) == IF k >= 255500 THEN 255 ELSE RoundDiv(k, 1000)

\* get_temp's result for the parsed reading c, the multiplication not
\* overflowing or wrapping
TempU8(c, f) == ScaleRoundU8(IF f THEN FahrenheitMilli(c) ELSE c)

\* ((cpu_util_end - cpu_util_start).non_idle() * 100.0).round() as u8, a
\* CpuInstant being the cumulative idle and total tick counters; an empty
\* interval gives NaN, cast to 0
UtilU8(s, e) ==
    LET dt == e.total - s.total
        di == e.idle - s.idle
    IN IF dt = 0 THEN 0 ELSE RoundDiv(100 * (dt - di), dt)

\* a variant of Checksum: the range stops one byte early (1..15 exclusive)
Checksum_Short(d) == SumBytes(d, 1, 14) % 256

\* status_data[1..=15].iter().map(|&x| x as u16).sum() % 256
Checksum(d) == SumBytes(d, 1, 15) % 256

\* lines 106-109: the power field
WithPower(d, w) == Put(Put(d, 8, U16BE(w)[1]), 9, U16BE(w)[2])

\* lines 112-126: unit flag, temperature, utilisation, checksum, terminator
Finish(d, t, f, u) ==
    LET tb == F32BE(t)
        d1 == Put(d, 10, IF f THEN 1 ELSE 0)
        d2 == Put(Put(Put(Put(d1, 11, tb[1]), 12, tb[2]), 13, tb[3]), 14, tb[4])
        d3 == Put(d2, 15, u)
        d4 == Put(d3, 16, Checksum(d3))
    IN Put(d4, 17, 22)

----------------------------------------------------------------------------
(* The environment *)

\* what geteuid() may return
Euids == {0, 1000}

\* values of --poll
Polls == {0, 1, 750}

\* HID devices an enumeration may yield: another vendor's, two products of the
\* vendor, one with product id 0, one without a product string
Devices ==
    { [vendor_id |-> 1133,   product_id |-> 1, product_string |-> TRUE],
      [vendor_id |-> VENDOR, product_id |-> 1, product_string |-> TRUE],
      [vendor_id |-> VENDOR, product_id |-> 2, product_string |-> TRUE],
      [vendor_id |-> VENDOR, product_id |-> 0, product_string |-> TRUE],
      [vendor_id |-> VENDOR, product_id |-> 1, product_string |-> FALSE] }

Whitespace == {" ", "\n", "\t"}

Unreadable == [io |-> "err"]

Unparsable == [io |-> "ok", parse |-> "err"]

Parsed(v) == [io |-> "ok", parse |-> "ok", val |-> v]

FileText(t) == [io |-> "ok", text |-> t]

\* contents of a hwmon{i}/name file, as a sequence of tokens
NameFiles ==
    { FileText(<<"acpitz", "\n">>),
      FileText(<<"k10temp", "\n">>),
      FileText(<<"coretemp">>) }

\* energy_uj readings in microjoules
Energies == {1000000, 2125000, 2500000, 100000000}

\* temp1_input readings in millidegrees Celsius
Temps == {45000, 52499, 52500, 300000, 477218589}

\* CpuInstant::now(): cumulative idle and total ticks
Instants ==
    { [idle |-> 0, total |-> 0],
      [idle |-> 1, total |-> 3],
      [idle |-> 2, total |-> 8] }

NoInstant == [idle |-> -1, total |-> -1]

NoEnergy == -1

NoneTaken == [us |-> -1, es |-> -1, ue |-> -1, ee |-> -1, temp |-> -1]

----------------------------------------------------------------------------
(* Helpers of the actions *)

\* str::trim_end
RECURSIVE TrimEnd(_)
TrimEnd(t) ==
    IF t # <<>> /\ t[Len(t)] \in Whitespace
    THEN TrimEnd(SubSeq(t, 1, Len(t) - 1))
    ELSE t

\* a variant of IsCpuSensor: the file content is compared untrimmed
IsCpuSensor_Untrimmed(text) ==
    text = <<"k10temp">> \/ text = <<"coretemp">>

\* hwname == "k10temp" || hwname == "coretemp"
IsCpuSensor(text) ==
    LET hwname == TrimEnd(text)
    IN hwname = <<"k10temp">> \/ hwname = <<"coretemp">>

\* api.open(VENDOR, product_id): the first enumerated device with both ids
FirstMatch(list, vid, pid) ==
    LET hits == {k \in 1..Len(list) :
                    list[k].vendor_id = vid /\ list[k].product_id = pid}
    IN IF hits = {} THEN 0 ELSE CHOOSE k \in hits : \A j \in hits : k <= j

\* a variant of After: the energy start read comes after the sleep
After_EnergyLate(p) ==
    CASE p = "start"        -> "hid_new"
      [] p = "hid_new"      -> "enumerate"
      [] p = "enumerate"    -> "connect"
      [] p = "connect"      -> "find_sensor"
      [] p = "find_sensor"  -> "init"
      [] p = "init"         -> "write_init_a"
      [] p = "write_init_a" -> "write_init_b"
      [] p = "write_init_b" -> "util_start"
      [] p = "util_start"   -> "sleep"
      [] p = "sleep"        -> "energy_start"
      [] p = "energy_start" -> "util_end"
      [] p = "util_end"     -> "energy_end"
      [] p = "energy_end"   -> "temp"
      [] p = "temp"         -> "write_status"
      [] p = "write_status" -> "util_start"

\* the order of main's I/O steps
After(p) ==
    CASE p = "start"        -> "hid_new"
      [] p = "hid_new"      -> "enumerate"
      [] p = "enumerate"    -> "connect"
      [] p = "connect"      -> "find_sensor"
      [] p = "find_sensor"  -> "init"
      [] p = "init"         -> "write_init_a"
      [] p = "write_init_a" -> "write_init_b"
      [] p = "write_init_b" -> "util_start"
      [] p = "util_start"   -> "energy_start"
      [] p = "energy_start" -> "sleep"
      [] p = "sleep"        -> "util_end"
      [] p = "util_end"     -> "energy_end"
      [] p = "energy_end"   -> "temp"
      [] p = "temp"         -> "write_status"
      [] p = "write_status" -> "util_start"

args  == <<euid, fahrenheit, poll>>
disc  == <<seen, product_id, device>>
sens  == <<i, names, cpu_hwmon_path>>
bufs  == <<init_data, status_data>>
samp  == <<cpu_util_start, cpu_power_start, cpu_util_end, cpu_power_end,
           k10temp>>
ghost == <<iter, slept, steps, taken>>

\* control passes to the next I/O step
Proceed ==
    /\ pc' = After(pc)
    /\ UNCHANGED <<exit_code, failure>>

\* exit(1) after a message
Exit(why) ==
    /\ pc' = "exited"
    /\ exit_code' = EXIT_FAILURE
    /\ failure' = why

\* a variant of Panic: the error is reported and the process calls exit(1)
Panic_ExitOne(why) ==
    /\ pc' = "exited"
    /\ exit_code' = EXIT_FAILURE
    /\ failure' = why

\* a panic: expect / unwrap on an error, or a failed overflow check
Panic(why) ==
    /\ pc' = "exited"
    /\ exit_code' = EXIT_PANIC
    /\ failure' = why

\* what reading a sensor value file may give
EnergyReads == {Unreadable, Unparsable} \cup {Parsed(v) : v \in Energies}

TempReads == {Unreadable, Unparsable} \cup {Parsed(v) : v \in Temps}

\* the panic of .expect() on a failed read, or of .unwrap() on a failed parse
ReadPanic(r, what) ==
    Panic(IF r.io = "err" THEN what \o "_unreadable" ELSE what \o "_unparsable")

\* a variant of write_data: a failed write is noted and the write is tried
\* again
write_data_retry(d) ==
    \/ /\ written' = Append(written, Kind(d))
       /\ Proceed
    \/ /\ UNCHANGED <<written, pc, exit_code>>
       /\ failure' = "write_failed"

\* write_data: device.write(data).expect("Failed to write data")
write_data(d) ==
    \/ /\ written' = Append(written, Kind(d))
       /\ Proceed
    \/ /\ UNCHANGED written
       /\ Panic("write_failed")

----------------------------------------------------------------------------
(* The program *)

Init ==
    /\ pc = "start"
    /\ euid \in Euids
    /\ fahrenheit \in BOOLEAN
    /\ poll \in Polls
    /\ seen = <<>>
    /\ product_id = 0
    /\ device = 0
    /\ i = 0
    /\ names = <<>>
    /\ cpu_hwmon_path = -1
    /\ init_data = NoPacket
    /\ status_data = NoPacket
    /\ cpu_util_start = NoInstant
    /\ cpu_power_start = NoEnergy
    /\ cpu_util_end = NoInstant
    /\ cpu_power_end = NoEnergy
    /\ k10temp = -1
    /\ written = <<>>
    /\ exit_code = -1
    /\ failure = "none"
    /\ iter = 0
    /\ slept = 0
    /\ steps = <<>>
    /\ taken = NoneTaken

\* lines 28-34: if geteuid() != 0 { exit(1) }
CheckRoot ==
    /\ pc = "start"
    /\ IF euid # 0 THEN Exit("not_root") ELSE Proceed
    /\ UNCHANGED <<args, disc, sens, bufs, samp, ghost, written>>

\* line 40: HidApi::new().expect(..)
HidNew ==
    /\ pc = "hid_new"
    /\ \/ Proceed
       \/ Panic("hid_init")
    /\ UNCHANGED <<args, disc, sens, bufs, samp, ghost, written>>

\* lines 41-53: one turn of the loop over api.device_list(), and the
\* product_id == 0 test once the loop has ended
FindDevice ==
    /\ pc = "enumerate"
    /\ \/ /\ Len(seen) < MaxDevices
          /\ \E d \in Devices :
                /\ seen' = Append(seen, d)
                /\ IF d.vendor_id = VENDOR
                   THEN /\ product_id' = d.product_id
                        /\ IF ~d.product_string
                           THEN Panic("no_product_string")
                           ELSE IF product_id' = 0
                                THEN Exit("device_not_found")
                                ELSE Proceed
                   ELSE UNCHANGED <<product_id, pc, exit_code, failure>>
       \/ /\ UNCHANGED <<seen, product_id>>
          /\ IF product_id = 0 THEN Exit("device_not_found") ELSE Proceed
    /\ UNCHANGED <<args, device, sens, bufs, samp, ghost, written>>

\* line 56: api.open(VENDOR, product_id).expect(..)
Connect ==
    /\ pc = "connect"
    /\ \/ /\ device' = FirstMatch(seen, VENDOR, product_id)
          /\ Proceed
       \/ /\ UNCHANGED device
          /\ Panic("open_failed")
    /\ UNCHANGED <<args, seen, product_id, sens, bufs, samp, ghost, written>>

\* lines 142-159: one turn of find_cpu_sensor's loop.  Indices from MaxChips
\* on have no name file.
FindCpuSensor ==
    /\ pc = "find_sensor"
    /\ \E r \in (IF i < MaxChips THEN NameFiles ELSE {}) \cup {Unreadable} :
          /\ names' = Append(names, r)
          /\ IF r.io = "ok"
             THEN IF IsCpuSensor(r.text)
                  THEN /\ cpu_hwmon_path' = i
                       /\ UNCHANGED i
                       /\ Proceed
                  ELSE /\ i' = i + 1
                       /\ UNCHANGED <<cpu_hwmon_path, pc, exit_code, failure>>
             ELSE /\ Exit("sensor_not_found")
                  /\ UNCHANGED <<i, cpu_hwmon_path>>
    /\ UNCHANGED <<args, disc, bufs, samp, ghost, written>>

\* lines 61-76: the data block and the first init packet
InitSequence ==
    /\ pc = "init"
    /\ init_data' = InitPacketA
    /\ Proceed
    /\ UNCHANGED <<args, disc, sens, status_data, samp, ghost, written>>

\* lines 77-79: write_data(&device, &init_data); init_data[5] = 2; init_data[7] = 111
WriteInitA ==
    /\ pc = "write_init_a"
    /\ write_data(init_data)
    /\ init_data' = IF pc' = "exited" THEN init_data ELSE InitPacketB(init_data)
    /\ UNCHANGED <<args, disc, sens, status_data, samp, ghost>>

\* lines 80-81: write_data(&device, &init_data); init_data goes out of scope
WriteInitB ==
    /\ pc = "write_init_b"
    /\ write_data(init_data)
    /\ init_data' = IF pc' = "exited" THEN init_data ELSE NoPacket
    /\ UNCHANGED <<args, disc, sens, status_data, samp, ghost>>

\* lines 85-94: a new iteration: status_data and CpuInstant::now().unwrap()
ReadUtilStart ==
    /\ pc = "util_start"
    /\ iter < MaxIter
    /\ iter' = iter + 1
    /\ status_data' = StatusHeader
    /\ \/ \E c \in Instants :
             /\ cpu_util_start' = c
             /\ steps' = <<"util_start">>
             /\ taken' = [NoneTaken EXCEPT !.us = slept]
             /\ Proceed
       \/ /\ UNCHANGED <<cpu_util_start, steps, taken>>
          /\ Panic("cpu_instant")
    /\ UNCHANGED <<args, disc, sens, init_data, cpu_power_start, cpu_util_end,
                   cpu_power_end, k10temp, slept, written>>

\* line 95: cpu_power_start = read_microjoules()
ReadEnergyStart ==
    /\ pc = "energy_start"
    /\ \E r \in EnergyReads :
          IF r \in {Unreadable, Unparsable}
          THEN /\ ReadPanic(r, "energy")
               /\ UNCHANGED <<cpu_power_start, steps, taken>>
          ELSE /\ cpu_power_start' = r.val
               /\ steps' = Append(steps, "energy_start")
               /\ taken' = [taken EXCEPT !.es = slept]
               /\ Proceed
    /\ UNCHANGED <<args, disc, sens, bufs, cpu_util_start, cpu_util_end,
                   cpu_power_end, k10temp, iter, slept, written>>

\* line 98: sleep(Duration::from_millis(args.poll))
Sleep ==
    /\ pc = "sleep"
    /\ slept' = slept + 1
    /\ steps' = Append(steps, "sleep")
    /\ Proceed
    /\ UNCHANGED <<args, disc, sens, bufs, samp, iter, taken, written>>

\* line 101: cpu_util_end = CpuInstant::now().unwrap(); the counters do not
\* run backwards
ReadUtilEnd ==
    /\ pc = "util_end"
    /\ \/ \E c \in Instants :
             /\ c.total >= cpu_util_start.total
             /\ c.idle >= cpu_util_start.idle
             /\ cpu_util_end' = c
             /\ steps' = Append(steps, "util_end")
             /\ taken' = [taken EXCEPT !.ue = slept]
             /\ Proceed
       \/ /\ UNCHANGED <<cpu_util_end, steps, taken>>
          /\ Panic("cpu_instant")
    /\ UNCHANGED <<args, disc, sens, bufs, cpu_util_start, cpu_power_start,
                   cpu_power_end, k10temp, iter, slept, written>>

\* lines 102-109: cpu_power_end = read_microjoules() and the power field.
\* cpu_power_end - cpu_power_start with end < start panics in a build with
\* overflow checks and wraps in one without.
ReadEnergyEnd ==
    /\ pc = "energy_end"
    /\ \E r \in EnergyReads :
          IF r \in {Unreadable, Unparsable}
          THEN /\ ReadPanic(r, "energy")
               /\ UNCHANGED <<cpu_power_end, status_data, steps, taken>>
          ELSE /\ cpu_power_end' = r.val
               /\ steps' = Append(steps, "energy_end")
               /\ taken' = [taken EXCEPT !.ee = slept]
               /\ IF r.val >= cpu_power_start
                  THEN /\ status_data' =
                            WithPower(status_data,
                                      PowerU16(r.val - cpu_power_start, poll))
                       /\ Proceed
                  ELSE \/ /\ UNCHANGED status_data
                          /\ Panic("overflow")
                       \/ /\ status_data' =
                               WithPower(status_data,
                                         WrappedPowerU16(cpu_power_start - r.val,
                                                         poll))
                          /\ Proceed
    /\ UNCHANGED <<args, disc, sens, init_data, cpu_util_start, cpu_power_start,
                   cpu_util_end, k10temp, iter, slept, written>>

\* lines 112-126: get_temp and the rest of the frame.  k10temp * 9 beyond
\* u32 panics in a build with overflow checks and wraps in one without.
ReadTemp ==
    /\ pc = "temp"
    /\ \E r \in TempReads :
          IF r \in {Unreadable, Unparsable}
          THEN /\ ReadPanic(r, "temp")
               /\ UNCHANGED <<k10temp, status_data, steps, taken>>
          ELSE /\ k10temp' = r.val
               /\ steps' = Append(steps, "temp")
               /\ taken' = [taken EXCEPT !.temp = slept]
               /\ \/ /\ fahrenheit /\ Mul9Overflows(r.val)
                     /\ UNCHANGED status_data
                     /\ Panic("overflow")
                  \/ /\ status_data' =
                          Finish(status_data, TempU8(r.val, fahrenheit),
                                 fahrenheit,
                                 UtilU8(cpu_util_start, cpu_util_end))
                     /\ Proceed
    /\ UNCHANGED <<args, disc, sens, init_data, cpu_util_start, cpu_power_start,
                   cpu_util_end, cpu_power_end, iter, slept, written>>

\* line 129: write_data(&device, &status_data); the iteration's locals go
\* out of scope
WriteStatus ==
    /\ pc = "write_status"
    /\ write_data(status_data)
    /\ IF pc' = "exited"
       THEN UNCHANGED <<status_data, samp, steps>>
       ELSE /\ status_data' = NoPacket
            /\ cpu_util_start' = NoInstant
            /\ cpu_power_start' = NoEnergy
            /\ cpu_util_end' = NoInstant
            /\ cpu_power_end' = NoEnergy
            /\ k10temp' = -1
            /\ steps' = Append(steps, "write")
    /\ UNCHANGED <<args, disc, sens, init_data, iter, slept, taken>>

Next ==
    \/ CheckRoot
    \/ HidNew
    \/ FindDevice
    \/ Connect
    \/ FindCpuSensor
    \/ InitSequence
    \/ WriteInitA
    \/ WriteInitB
    \/ ReadUtilStart
    \/ ReadEnergyStart
    \/ Sleep
    \/ ReadUtilEnd
    \/ ReadEnergyEnd
    \/ ReadTemp
    \/ WriteStatus

Spec == Init /\ [][Next]_vars

\* main is one thread that runs whenever it can take a step
FairSpec == Spec /\ WF_vars(Next)

----------------------------------------------------------------------------
(* Properties *)

\* the buffer write_data is called with
Arg == IF pc = "write_status" THEN status_data ELSE init_data

Writing == pc \in {"write_init_a", "write_init_b", "write_status"}

InLoopPcs ==
    {"util_start", "energy_start", "sleep", "util_end", "energy_end", "temp",
     "write_status"}

InLoop == pc \in InLoopPcs

\* the integer nearest to n / d, halves away from zero, for n >= 0 and d > 0
Nearest(n, d) == IF 2 * (n % d) >= d THEN n \div d + 1 ELSE n \div d

AtMost(x, cap) == IF x > cap THEN cap ELSE x

\* the value bytes 8..9 of a frame hold
PowerField(d) == U16FromBE(B(d, 8), B(d, 9))

\* the value bytes 11..14 of a frame hold
TempField(d) == F32Value(<<B(d, 11), B(d, 12), B(d, 13), B(d, 14)>>)

\* C1: the packets written are, in order, init packet A (bytes 4..8 =
\* 2,3,1,112,22), init packet B (bytes 4..8 = 2,2,1,111,22) and then status
\* frames only (byte 4 = 11): each init packet once, in that order, and no
\* status frame before both.
C1_InitThenStatus ==
    /\ \A k \in 1..Len(written) :
          /\ k = 1 => SubSeq(written[k], 5, 8) = <<2, 3, 1, 112>>
          /\ k = 2 => SubSeq(written[k], 5, 8) = <<2, 2, 1, 111>>
          /\ k >= 3 => written[k][5] = 11
    /\ pc = "write_init_a" =>
          /\ written = <<>>
          /\ SubSeq(init_data, 5, 9) = <<2, 3, 1, 112, 22>>
    /\ pc = "write_init_b" =>
          /\ Len(written) = 1
          /\ SubSeq(init_data, 5, 9) = <<2, 2, 1, 111, 22>>
    /\ pc = "write_status" =>
          /\ Len(written) >= 2
          /\ B(status_data, 4) = 11

C1_Witness ==
    /\ Len(written) = 4
    /\ written[3][5] = 11
    /\ written[4][5] = 11

\* C2: the status frame handed to the device is 64 bytes long, has byte 0 =
\* 16 and byte 17 = 22, and its byte 16 is the sum of its bytes 1..15 modulo
\* 256, whatever the telemetry values.
C2_StatusFrameShape ==
    pc = "write_status" =>
        /\ Len(status_data) = 64
        /\ \A k \in 0..63 : B(status_data, k) \in 0..255
        /\ B(status_data, 0) = 16
        /\ B(status_data, 17) = 22
        /\ B(status_data, 16) = SumBytes(status_data, 1, 15) % 256

C2_Witness ==
    /\ pc = "write_status"
    /\ SumBytes(status_data, 1, 15) > 255
    /\ B(status_data, 15) > 0
    /\ B(status_data, 16) = SumBytes(status_data, 1, 15) - 256

\* C3 as stated: every packet handed to the device, the init packets
\* included, has 22 at offset 17 and at offset 16 the sum of its bytes 1..15
\* modulo 256.
C3_AllPacketsChecksummed ==
    Writing =>
        /\ B(Arg, 17) = 22
        /\ B(Arg, 16) = SumBytes(Arg, 1, 15) % 256

\* C3 as amended: a status frame has 22 at offset 17 and the sum of bytes
\* 1..15 modulo 256 at offset 16; an init packet has zero at offsets 16 and
\* 17, its terminator 22 at offset 8, the sum of its bytes 1..6 modulo 256 at
\* offset 7 and zero from offset 9 on.
C3_TerminatorPerKind ==
    /\ pc = "write_status" =>
          /\ B(status_data, 17) = 22
          /\ B(status_data, 16) = SumBytes(status_data, 1, 15) % 256
    /\ pc \in {"write_init_a", "write_init_b"} =>
          /\ Len(init_data) = 64
          /\ B(init_data, 8) = 22
          /\ B(init_data, 7) = SumBytes(init_data, 1, 6) % 256
          /\ \A k \in 9..63 : B(init_data, k) = 0

C3_Witness ==
    /\ pc = "write_init_b"
    /\ B(init_data, 7) = 111
    /\ B(init_data, 17) = 0

\* the fatal conditions C4 names
NamedFatal ==
    {"device_not_found", "open_failed", "sensor_not_found", "write_failed",
     "energy_unreadable", "energy_unparsable", "temp_unreadable",
     "temp_unparsable"}

\* C4 as stated: whichever of the named fatal conditions ends the process,
\* its exit status is 1.
C4_ExitStatusOne == pc = "exited" /\ failure \in NamedFatal => exit_code = 1

\* C4 as amended: a fatal condition ends the process with a non-zero exit
\* status: 1 when the device is not found, the temperature sensor is not
\* found or the user is not root (exit(1)), and 101 when the device cannot be
\* opened, a write fails or sensor data is unreadable or unparsable (a
\* panic).
C4_ExitStatusByCause ==
    /\ (pc = "exited") = (exit_code # -1)
    /\ (pc = "exited") = (failure # "none")
    /\ pc = "exited" =>
          /\ exit_code # 0
          /\ failure \in {"device_not_found", "sensor_not_found", "not_root"}
                => exit_code = 1
          /\ failure \in {"open_failed", "write_failed", "energy_unreadable",
                          "energy_unparsable", "temp_unreadable",
                          "temp_unparsable", "hid_init", "no_product_string",
                          "cpu_instant", "overflow"}
                => exit_code = 101

C4_Witness ==
    /\ pc = "exited"
    /\ failure = "write_failed"
    /\ exit_code = 101
    /\ Len(written) = 3

HasVendor == \E k \in 1..Len(seen) : seen[k].vendor_id = VENDOR

FirstVendor ==
    CHOOSE k \in 1..Len(seen) :
        /\ seen[k].vendor_id = VENDOR
        /\ \A j \in 1..(k - 1) : seen[j].vendor_id # VENDOR

DiscoveryEnded ==
    \/ pc \notin {"start", "hid_new", "enumerate", "exited"}
    \/ pc = "exited" /\ failure \notin {"not_root", "hid_init"}

\* C5: once discovery has ended, 'device not found' has been reported if and
\* only if no enumerated device has vendor id 0x3633, and a device that is
\* opened is the first enumerated one with that vendor id, whatever its
\* product id.
C5_NotFoundIffNoVendor ==
    DiscoveryEnded =>
        /\ (failure = "device_not_found") = ~HasVendor
        /\ device # 0 => device = FirstVendor

\* a file content that trim_end turns into one of the two names
NamesCpuSensor(r) ==
    /\ r.io = "ok"
    /\ \E n \in 1..Len(r.text) :
          /\ SubSeq(r.text, 1, n) \in {<<"k10temp">>, <<"coretemp">>}
          /\ \A k \in (n + 1)..Len(r.text) : r.text[k] \in {" ", "\n", "\t"}

NamesOtherChip(r) == r.io = "ok" /\ ~NamesCpuSensor(r)

C6_ScanInv ==
    /\ Len(names) <= MaxChips + 1
    /\ \A k \in 1..(Len(names) - 1) : NamesOtherChip(names[k])
    /\ pc = "find_sensor" =>
          /\ i = Len(names)
          /\ cpu_hwmon_path = -1
          /\ \A k \in 1..Len(names) : NamesOtherChip(names[k])
    /\ cpu_hwmon_path # -1 =>
          /\ cpu_hwmon_path = Len(names) - 1
          /\ NamesCpuSensor(names[cpu_hwmon_path + 1])
          /\ failure # "sensor_not_found"
    /\ failure = "sensor_not_found" =>
          /\ cpu_hwmon_path = -1
          /\ names[Len(names)] = Unreadable
    /\ pc \in {"init", "write_init_a", "write_init_b"} \cup InLoopPcs =>
          cpu_hwmon_path # -1

\* C6: the scan reads the name files of indices 0, 1, 2, ... in order and
\* resolves to the lowest index whose name, trailing whitespace removed, is
\* k10temp or coretemp; other names do not stop it; an unreadable name
\* before any match ends it with SensorNotFound; and it always ends in one
\* of the two ways.
C6_SensorResolution ==
    /\ []C6_ScanInv
    /\ (pc = "find_sensor") ~>
          (cpu_hwmon_path # -1 \/ failure = "sensor_not_found")

C6_Witness ==
    /\ cpu_hwmon_path = 1
    /\ names = <<FileText(<<"acpitz", "\n">>), FileText(<<"k10temp", "\n">>)>>
    /\ pc = "write_init_a"

NearestFahrenheit(c) ==
    32 + 9 * (c \div 5000) + Nearest(9 * (c % 5000), 5000)

\* C8 as stated: in Fahrenheit mode the temperature in the frame is
\* round((c * 9 / 5 + 32000) / 1000) and byte 10 is 1, in Celsius mode it is
\* round(c / 1000) and byte 10 is 0, for every raw reading c.
C8_TemperatureIsNearestDegree ==
    pc = "write_status" =>
        IF fahrenheit
        THEN /\ TempField(status_data) = NearestFahrenheit(k10temp)
             /\ B(status_data, 10) = 1
        ELSE /\ TempField(status_data) = Nearest(k10temp, 1000)
             /\ B(status_data, 10) = 0

\* the largest c with c * 9 below 2^32; 9 * 477218588 = 2^32 - 4
LastFitting == 477218588

\* C8 as amended: the temperature in the frame is the nearest degree capped
\* at 255: min(255, round(c / 1000)) with byte 10 = 0 in Celsius mode,
\* min(255, round((c * 9 / 5 + 32000) / 1000)) with byte 10 = 1 in Fahrenheit
\* mode when c * 9 fits in 32 bits; when it does not, a frame is written only
\* by a build without overflow checks, with c * 9 reduced modulo 2^32.
C8_TemperatureCappedOrNearest ==
    pc = "write_status" =>
        /\ k10temp \in Temps
        /\ B(status_data, 10) = (IF fahrenheit THEN 1 ELSE 0)
        /\ ~fahrenheit =>
              TempField(status_data) = AtMost(Nearest(k10temp, 1000), 255)
        /\ fahrenheit /\ k10temp <= LastFitting =>
              TempField(status_data) = AtMost(NearestFahrenheit(k10temp), 255)
        /\ fahrenheit /\ k10temp > LastFitting /\ k10temp <= 2 * LastFitting =>
              TempField(status_data) =
                  AtMost(Nearest((9 * (k10temp - LastFitting) - 4) \div 5
                                     + 32000, 1000),
                         255)

C8_Witness ==
    /\ pc = "write_status"
    /\ fahrenheit
    /\ k10temp = 45000
    /\ TempField(status_data) = 113
    /\ B(status_data, 10) = 1
    /\ <<B(status_data, 11), B(status_data, 12)>> = <<66, 226>>

ExpectedSteps ==
    <<"util_start", "energy_start", "sleep", "util_end", "energy_end", "temp",
      "write">>

\* C9: an iteration takes, in this order and once each, the utilisation and
\* energy start samples, the sleep, the utilisation and energy end samples,
\* the temperature and the write of one frame; the frame's utilisation and
\* power come from the start and end samples of its own iteration, taken
\* just before and just after that iteration's one sleep.
C9_OneWindowPerFrame ==
    /\ Len(steps) <= Len(ExpectedSteps)
    /\ steps = SubSeq(ExpectedSteps, 1, Len(steps))
    /\ pc \in InLoopPcs \ {"util_start"} =>
          ExpectedSteps[Len(steps) + 1] =
              (IF pc = "write_status" THEN "write" ELSE pc)
    /\ pc = "util_start" => steps \in {<<>>, ExpectedSteps}
    /\ pc = "util_start" /\ steps = ExpectedSteps => Len(written) = 2 + iter
    /\ pc = "write_status" =>
          /\ slept = iter
          /\ Len(written) = 2 + iter - 1
          /\ taken = [us |-> iter - 1, es |-> iter - 1, ue |-> iter,
                      ee |-> iter, temp |-> iter]
          /\ cpu_util_start \in Instants
          /\ cpu_util_end \in Instants
          /\ LET dt == cpu_util_end.total - cpu_util_start.total
                 busy == dt - (cpu_util_end.idle - cpu_util_start.idle)
             IN B(status_data, 15) =
                    (IF dt = 0 THEN 0 ELSE Nearest(100 * busy, dt))

C9_Witness ==
    /\ pc = "util_start"
    /\ iter = 2
    /\ steps = ExpectedSteps
    /\ taken.us = 1
    /\ taken.ee = 2
    /\ Len(written) = 4

C10_ReadyInv ==
    /\ written # <<>> \/ Writing =>
          /\ device # 0
          /\ seen[device].vendor_id = VENDOR
          /\ cpu_hwmon_path # -1
    /\ Writing => failure = "none" /\ exit_code = -1
    /\ failure \in {"sensor_not_found", "device_not_found", "open_failed"} =>
          written = <<>>

\* C10: a packet is written only after discovery, open and sensor
\* resolution have succeeded and while no failure has occurred; a failed
\* sensor resolution leaves zero packets written; after a failure nothing is
\* retried and no packet is written.
C10_NoWriteUnlessHealthy ==
    /\ []C10_ReadyInv
    /\ [][/\ written' # written =>
                /\ failure = "none"
                /\ failure' = "none"
                /\ Writing
                /\ written' = Append(written, Kind(Arg))
          /\ failure # "none" => pc = "exited"
          /\ pc = "exited" => FALSE]_vars

C10_Witness ==
    /\ pc = "exited"
    /\ failure = "temp_unreadable"
    /\ Len(written) = 3
    /\ iter = 2

====
